---- MODULE Spec2Model ----
(***************************************************************************)
(* A model of src/hashring.py: the HashRing class (consistent hashing).    *)
(*                                                                         *)
(* The ring object is the pair (ring, _sorted_keys) plus the fixed field   *)
(* replicas.  md5 hexdigests are 32 lower-case hex characters, compared    *)
(* as strings by the code; that order is the numeric order of the digest,  *)
(* so a digest is modelled as a number of 0..HashSpace-1.  The digest      *)
(* function is a fixed table md5, drawn in Init: the digests of the        *)
(* composite strings "<node>:<i>" are arbitrary, so that every relative    *)
(* order of the points, collisions included, occurs; the looked-up strings *)
(* are one string per digest value, so that a lookup falls before, on,     *)
(* between and after the points within one ring.                           *)
(***************************************************************************)
EXTENDS Integers, Sequences, FiniteSets, TLC

\* ---------------------------------------------------------------- bounds
NodeList == <<"A", "B", "C">>  \* node identifiers the caller supplies
Nodes == {NodeList[j] : j \in 1..Len(NodeList)}
IterNodes == {NodeList[1], NodeList[2]}  \* those used with a generator
MaxReplicas == 2              \* replicas is drawn from 0..MaxReplicas
HashSpace == 4                \* digests are 0..HashSpace-1
MaxKeys == 4                  \* cap on len(_sorted_keys)

\* Python's None, as a node and as a position
None == "None"
NonePos == 0 - 1

VARIABLES
    replicas,      \* self.replicas
    ring,          \* self.ring: dict digest -> node
    sorted_keys,   \* self._sorted_keys: list of digests
    md5,           \* the digest function: string -> digest
    last,          \* the last call made on the ring and how it ended
    gen,           \* the generator object returned by get_nodes, if any
    call           \* the add_node or remove_node call in progress, if any

vars == <<replicas, ring, sorted_keys, md5, last, gen, call>>

\* ------------------------------------------------------------- helpers
\* '%s:%s' % (node, i)
Composite(node, i) == node \o ":" \o ToString(i)

\* the composite strings hashed for the nodes ns with r replicas per node
CompositeKeys(ns, r) == {Composite(n, i) : n \in ns, i \in 0..(r - 1)}

\* the string keys looked up: "k<d>" is a string whose digest is d
LookupKey(d) == "k" \o ToString(d)
LookupKeys == {LookupKey(d) : d \in 0..(HashSpace - 1)}

\* The digest tables over the composite strings of ns and the lookup keys.
\* The code treats node identifiers alike, so of the tables that differ by
\* a renaming of the nodes one is kept: the one whose nodes come in the
\* order of their first points.
Md5Tables(ns, r) ==
    LET points == {c \in [CompositeKeys(ns, r) -> 0..(HashSpace - 1)] :
                      \A j \in 1..(Len(NodeList) - 1) :
                          (r > 0 /\ NodeList[j] \in ns
                                 /\ NodeList[j + 1] \in ns)
                          => c[Composite(NodeList[j], 0)]
                                 <= c[Composite(NodeList[j + 1], 0)]}
    IN  {[s \in CompositeKeys(ns, r) \cup LookupKeys |->
             IF s \in LookupKeys
             THEN CHOOSE d \in 0..(HashSpace - 1) : LookupKey(d) = s
             ELSE c[s]] : c \in points}

\* dict(): the empty mapping
EmptyDict == [k \in {} |-> None]

\* d.setdefault(key, value) in place of d[key] = value: a key that is
\* present keeps its value
DictSet_keep(d, key, value) ==
    [k \in (DOMAIN d) \cup {key} |-> IF k \in DOMAIN d THEN d[k] ELSE value]

\* d[key] = value
DictSet(d, key, value) ==
    [k \in (DOMAIN d) \cup {key} |-> IF k = key THEN value ELSE d[k]]

\* del d[key], for a key that is present
DictDel(d, key) == [k \in (DOMAIN d) \ {key} |-> d[k]]

\* list.sort()
ListSort(s) == SortSeq(s, LAMBDA a, b : a < b)

\* x in list
ListContains(s, x) == \E i \in 1..Len(s) : s[i] = x

\* list.pop() in place of list.remove(x): drops the last element
ListRemove_pop(s, x) == SubSeq(s, 1, Len(s) - 1)

\* list.remove(x): drops the first occurrence of x, which must be present
ListRemove(s, x) ==
    LET first == CHOOSE i \in 1..Len(s) :
                     s[i] = x /\ \A j \in 1..(i - 1) : s[j] # x
    IN  [j \in 1..(Len(s) - 1) |-> IF j < first THEN s[j] ELSE s[j + 1]]

\* list[pos:] for a 0-based pos; pos None gives the whole list
ListFrom(s, pos) ==
    IF pos = NonePos THEN s
    ELSE [j \in 1..(Len(s) - pos) |-> s[j + pos]]

\* The node identifiers the caller uses with r replicas per node: those of
\* ns, in the order of NodeList, that fit together on a ring of MaxKeys
\* points.
Callers(ns, r) ==
    {NodeList[j] : j \in {i \in 1..Len(NodeList) :
                              /\ NodeList[i] \in ns
                              /\ r > 0 => i * r <= MaxKeys}}

\* the node identifiers in use: those whose composite strings md5 covers
Universe ==
    {n \in Nodes : CompositeKeys({n}, replicas) \subseteq DOMAIN md5}

\* the object: its two mutable fields
Self == [ring |-> ring, sorted_keys |-> sorted_keys]

\* ------------------------------------------------------------ the class
\* gen_key: the md5 hexdigest of the utf8 encoding of key
gen_key(key) == md5[key]

\* add_node without the final self._sorted_keys.sort()
RECURSIVE add_node_from_unsorted(_, _, _)
add_node_from_unsorted(self, node, i) ==
    IF i >= replicas
    THEN self
    ELSE LET key == gen_key(Composite(node, i))
         IN  add_node_from_unsorted(
                 [ring |-> DictSet(self.ring, key, node),
                  sorted_keys |-> Append(self.sorted_keys, key)],
                 node, i + 1)

\* add_node: the loop over range(0, self.replicas), from index i on,
\* followed by the sort
RECURSIVE add_node_from(_, _, _)
add_node_from(self, node, i) ==
    IF i >= replicas
    THEN [ring |-> self.ring, sorted_keys |-> ListSort(self.sorted_keys)]
    ELSE LET key == gen_key(Composite(node, i))
         IN  add_node_from([ring |-> DictSet(self.ring, key, node),
                            sorted_keys |-> Append(self.sorted_keys, key)],
                           node, i + 1)

\* add_node with range(1, self.replicas): the replica of index 0 is skipped
add_node_skip_first(self, node) == add_node_from(self, node, 1)

add_node(self, node) == add_node_from(self, node, 0)

\* remove_node with self.ring.pop(key, None) and a guarded list.remove: a
\* missing key is skipped in silence
RECURSIVE remove_node_from_silent(_, _, _)
remove_node_from_silent(self, node, i) ==
    IF i >= replicas
    THEN [self |-> self, status |-> "ok"]
    ELSE LET key == gen_key(Composite(node, i))
         IN  remove_node_from_silent(
                 [ring |-> IF key \in DOMAIN self.ring
                           THEN DictDel(self.ring, key) ELSE self.ring,
                  sorted_keys |-> IF ListContains(self.sorted_keys, key)
                                  THEN ListRemove(self.sorted_keys, key)
                                  ELSE self.sorted_keys],
                 node, i + 1)

\* remove_node: the loop over range(0, self.replicas), from index i on.
\* del self.ring[key] raises KeyError on a missing key, list.remove raises
\* ValueError on a missing element; the exception leaves the object as the
\* statements before it made it.
RECURSIVE remove_node_from(_, _, _)
remove_node_from(self, node, i) ==
    IF i >= replicas
    THEN [self |-> self, status |-> "ok"]
    ELSE LET key == gen_key(Composite(node, i))
         IN  IF key \notin DOMAIN self.ring
             THEN [self |-> self, status |-> "KeyError"]
             ELSE IF ~ListContains(self.sorted_keys, key)
             THEN [self |-> [ring |-> DictDel(self.ring, key),
                             sorted_keys |-> self.sorted_keys],
                   status |-> "ValueError"]
             ELSE remove_node_from(
                      [ring |-> DictDel(self.ring, key),
                       sorted_keys |-> ListRemove(self.sorted_keys, key)],
                      node, i + 1)

\* remove_node with the two statements of the loop body exchanged:
\* self._sorted_keys.remove(key) before del self.ring[key]
RECURSIVE remove_node_list_first_from(_, _, _)
remove_node_list_first_from(self, node, i) ==
    IF i >= replicas
    THEN [self |-> self, status |-> "ok"]
    ELSE LET key == gen_key(Composite(node, i))
         IN  IF ~ListContains(self.sorted_keys, key)
             THEN [self |-> self, status |-> "ValueError"]
             ELSE IF key \notin DOMAIN self.ring
             THEN [self |-> [ring |-> self.ring,
                             sorted_keys |->
                                 ListRemove(self.sorted_keys, key)],
                   status |-> "KeyError"]
             ELSE remove_node_list_first_from(
                      [ring |-> DictDel(self.ring, key),
                       sorted_keys |-> ListRemove(self.sorted_keys, key)],
                      node, i + 1)

remove_node_list_first(self, node) ==
    remove_node_list_first_from(self, node, 0)

remove_node(self, node) == remove_node_from(self, node, 0)

\* a lookup by key % len(nodes) in place of the walk along the ring
scan_mod(nodes, key) == (key % Len(nodes)) + 1

\* the for loop of get_node_pos: the first 1-based index i of nodes with
\* key <= nodes[i], or 0 when the loop ends without returning
scan(nodes, key) ==
    LET hits == {i \in 1..Len(nodes) : key <= nodes[i]}
    IN  IF hits = {} THEN 0
        ELSE CHOOSE h \in hits : \A g \in hits : h <= g

\* get_node_pos without the test of lines 84-85 for an empty ring
get_node_pos_unguarded(self, string_key) ==
    LET key == gen_key(string_key)
        nodes == self.sorted_keys
        found == scan(nodes, key)
        i == IF found = 0 THEN 1 ELSE found
    IN  IF Len(nodes) = 0
        THEN [status |-> "IndexError", node |-> None, pos |-> NonePos]
        ELSE IF nodes[i] \notin DOMAIN self.ring
        THEN [status |-> "KeyError", node |-> None, pos |-> NonePos]
        ELSE [status |-> "ok", node |-> self.ring[nodes[i]], pos |-> i - 1]

\* get_node_pos: (node, pos) with a 0-based pos, or the exception raised
get_node_pos(self, string_key) ==
    IF DOMAIN self.ring = {}
    THEN [status |-> "ok", node |-> None, pos |-> NonePos]
    ELSE LET key == gen_key(string_key)
             nodes == self.sorted_keys
             found == scan(nodes, key)
             i == IF found = 0 THEN 1 ELSE found
         IN  IF Len(nodes) = 0
             THEN [status |-> "IndexError", node |-> None, pos |-> NonePos]
             ELSE IF nodes[i] \notin DOMAIN self.ring
             THEN [status |-> "KeyError", node |-> None, pos |-> NonePos]
             ELSE [status |-> "ok", node |-> self.ring[nodes[i]],
                   pos |-> i - 1]

\* get_node: the node component of get_node_pos
get_node(self, string_key) ==
    LET r == get_node_pos(self, string_key)
    IN  [status |-> r.status, node |-> r.node]

\* __init__: the empty ring, then add_node for each node of the list
RECURSIVE HashRing(_)
HashRing(nodes) ==
    IF Len(nodes) = 0
    THEN [ring |-> EmptyDict, sorted_keys |-> <<>>]
    ELSE add_node(HashRing(SubSeq(nodes, 1, Len(nodes) - 1)),
                  nodes[Len(nodes)])

\* ------------------------------------------------------ the generator
\* The generator object of get_nodes.  pc is where its frame is suspended:
\*   "none"      get_nodes has not been called
\*   "start"     created, no statement run yet
\*   "sentinel"  at the yield None, None of the empty-ring branch
\*   "slice"     at the yield of the for loop over self._sorted_keys[pos:];
\*               slice is that copy, i the number of its elements consumed
\*   "loop"      at the yield of the for loop inside while True; i is the
\*               index the list iterator over self._sorted_keys reads next
\*   "closed"    ended by an exception
\*   "hung"      a next() that never returns
NoGen == [pc |-> "none", key |-> None, slice |-> <<>>, i |-> 0]

\* the tuple (None, None) as a yielded element
Sentinel == "(None, None)"

\* yield self.ring[key], suspending at pc with cursor i; KeyError ends the
\* generator
gen_yield(self, g, key, pc, slice, i) ==
    IF key \in DOMAIN self.ring
    THEN [gen |-> [pc |-> pc, key |-> g.key, slice |-> slice, i |-> i],
          status |-> "yield", value |-> self.ring[key]]
    ELSE [gen |-> [pc |-> "closed", key |-> g.key, slice |-> <<>>, i |-> 0],
          status |-> "KeyError", value |-> None]

\* while True: for key in self._sorted_keys: yield self.ring[key]
\* resumed with the list iterator at index j.  An exhausted iterator ends
\* the for loop and while True starts a new one; over an empty list that
\* repeats forever without reaching a yield.
gen_loop(self, g, j) ==
    IF j < Len(self.sorted_keys)
    THEN gen_yield(self, g, self.sorted_keys[j + 1], "loop", <<>>, j + 1)
    ELSE IF Len(self.sorted_keys) = 0
    THEN [gen |-> [pc |-> "hung", key |-> g.key, slice |-> <<>>, i |-> 0],
          status |-> "hang", value |-> None]
    ELSE gen_yield(self, g, self.sorted_keys[1], "loop", <<>>, 1)

\* for key in self._sorted_keys[pos:]: yield self.ring[key]
\* resumed with i elements of the copy consumed; then the while True loop
gen_slice(self, g, slice, i) ==
    IF i < Len(slice)
    THEN gen_yield(self, g, slice[i + 1], "slice", slice, i + 1)
    ELSE gen_loop(self, g, 0)

\* node, pos = self.get_node_pos(string_key), then the two loops
gen_pos(self, g) ==
    LET r == get_node_pos(self, g.key)
    IN  IF r.status # "ok"
        THEN [gen |-> [pc |-> "closed", key |-> g.key, slice |-> <<>>,
                       i |-> 0],
              status |-> r.status, value |-> None]
        ELSE gen_slice(self, g, ListFrom(self.sorted_keys, r.pos), 0)

\* next(g) on the generator g of get_nodes: what it yields or raises and
\* the frame it leaves
get_nodes_next(self, g) ==
    CASE g.pc = "start" ->
             IF DOMAIN self.ring = {}
             THEN [gen |-> [pc |-> "sentinel", key |-> g.key,
                            slice |-> <<>>, i |-> 0],
                   status |-> "yield", value |-> Sentinel]
             ELSE gen_pos(self, g)
      [] g.pc = "sentinel" -> gen_pos(self, g)
      [] g.pc = "slice" -> gen_slice(self, g, g.slice, g.i)
      [] g.pc = "loop" -> gen_loop(self, g, g.i)
      [] OTHER -> [gen |-> g, status |-> "StopIteration", value |-> None]

\* ------------------------------------------- the statements of a call
\* A call of add_node or remove_node that another thread can look into.
\* at is the statement it executes next, for the index i of the loop:
\*   "idle"      no call in progress
\*   "set"       self.ring[key] = node                (add_node, line 64)
\*   "append"    self._sorted_keys.append(key)        (add_node, line 65)
\*   "sort"      self._sorted_keys.sort()             (add_node, line 66)
\*   "del"       del self.ring[key]                   (remove_node, line 72)
\*   "remove"    self._sorted_keys.remove(key)        (remove_node, line 73)
\* from is the object as it was when the call began.
NoCall == [op |-> "none", node |-> None, i |-> 0, at |-> "idle",
           from |-> [ring |-> EmptyDict, sorted_keys |-> <<>>]]

\* where add_node stands when the loop reaches index i
add_node_at(i) == IF i < replicas THEN "set" ELSE "sort"

\* self.ring[key] = node for the index i
add_node_set(self, node, i) ==
    [ring |-> DictSet(self.ring, gen_key(Composite(node, i)), node),
     sorted_keys |-> self.sorted_keys]

\* self._sorted_keys.append(key) for the index i
add_node_append(self, node, i) ==
    [ring |-> self.ring,
     sorted_keys |-> Append(self.sorted_keys, gen_key(Composite(node, i)))]

\* del self.ring[key] together with self._sorted_keys.remove(key): the two
\* statements as one
remove_node_del_both(self, node, i) ==
    LET key == gen_key(Composite(node, i))
    IN  IF key \notin DOMAIN self.ring
        THEN [self |-> self, status |-> "KeyError"]
        ELSE [self |-> [ring |-> DictDel(self.ring, key),
                        sorted_keys |->
                            IF ListContains(self.sorted_keys, key)
                            THEN ListRemove(self.sorted_keys, key)
                            ELSE self.sorted_keys],
              status |-> "ok"]

\* del self.ring[key] for the index i
remove_node_del(self, node, i) ==
    LET key == gen_key(Composite(node, i))
    IN  IF key \notin DOMAIN self.ring
        THEN [self |-> self, status |-> "KeyError"]
        ELSE [self |-> [ring |-> DictDel(self.ring, key),
                        sorted_keys |-> self.sorted_keys],
              status |-> "ok"]

\* self._sorted_keys.remove(key) for the index i
remove_node_remove(self, node, i) ==
    LET key == gen_key(Composite(node, i))
    IN  IF ~ListContains(self.sorted_keys, key)
        THEN [self |-> self, status |-> "ValueError"]
        ELSE [self |-> [ring |-> self.ring,
                        sorted_keys |-> ListRemove(self.sorted_keys, key)],
              status |-> "ok"]

\* ----------------------------------------------------------- behaviour
\* the node lists given to the constructor: None, one node, two nodes
InitNodeLists(ns) == {<<>>} \cup {<<n>> : n \in ns} \cup (ns \X ns)

\* HashRing(nodes, replicas) over the node identifiers ns
InitOver(ns) ==
    /\ replicas \in 0..MaxReplicas
    /\ md5 \in Md5Tables(Callers(ns, replicas), replicas)
    /\ \E nodes \in InitNodeLists(Callers(ns, replicas)) :
           /\ Len(nodes) * replicas <= MaxKeys
           /\ ring = HashRing(nodes).ring
           /\ sorted_keys = HashRing(nodes).sorted_keys
    /\ last = [op |-> "__init__", node |-> None, status |-> "ok"]
    /\ gen = NoGen
    /\ call = NoCall

Init == InitOver(Nodes)

\* ring.add_node(node)
AddNode(node) ==
    /\ gen.pc # "hung"
    /\ Len(sorted_keys) + replicas <= MaxKeys
    /\ ring' = add_node(Self, node).ring
    /\ sorted_keys' = add_node(Self, node).sorted_keys
    /\ last' = [op |-> "add_node", node |-> node, status |-> "ok"]
    /\ UNCHANGED <<replicas, md5, gen, call>>

\* ring.remove_node(node), returning or raising
RemoveNode(node) ==
    /\ gen.pc # "hung"
    /\ ring' = remove_node(Self, node).self.ring
    /\ sorted_keys' = remove_node(Self, node).self.sorted_keys
    /\ last' = [op |-> "remove_node", node |-> node,
                status |-> remove_node(Self, node).status]
    /\ UNCHANGED <<replicas, md5, gen, call>>

\* g = ring.get_nodes(string_key): creates the generator, runs nothing
GetNodes(string_key) ==
    /\ gen.pc # "hung"
    /\ gen' = [pc |-> "start", key |-> string_key, slice |-> <<>>, i |-> 0]
    /\ last' = [op |-> "get_nodes", node |-> None, status |-> "ok"]
    /\ UNCHANGED <<replicas, ring, sorted_keys, md5, call>>

\* next(g)
PullNext ==
    /\ gen.pc \notin {"none", "hung"}
    /\ gen' = get_nodes_next(Self, gen).gen
    /\ last' = [op |-> "next", node |-> get_nodes_next(Self, gen).value,
                status |-> get_nodes_next(Self, gen).status]
    /\ UNCHANGED <<replicas, ring, sorted_keys, md5, call>>

Next ==
    \/ \E node \in Universe : AddNode(node)
    \/ \E node \in Universe : RemoveNode(node)

Spec == Init /\ [][Next]_vars

\* the ring together with one generator over it
InitIter == InitOver(IterNodes)

NextIter ==
    \/ \E node \in Universe : AddNode(node)
    \/ \E node \in Universe : RemoveNode(node)
    \/ \E string_key \in LookupKeys : GetNodes(string_key)
    \/ PullNext

SpecIter == InitIter /\ [][NextIter]_vars

\* the ring is built and changed first and only iterated afterwards: no
\* add_node or remove_node once a generator exists
NextUnmutated ==
    \/ \E node \in Universe : gen.pc = "none" /\ AddNode(node)
    \/ \E node \in Universe : gen.pc = "none" /\ RemoveNode(node)
    \/ \E string_key \in LookupKeys : GetNodes(string_key)
    \/ PullNext

SpecUnmutated == InitIter /\ [][NextUnmutated]_vars

\* the generator is created on a non-empty ring, and while it exists the
\* add_node and remove_node calls made between its next() calls leave the
\* ring non-empty
NextInterleaved ==
    \/ \E node \in Universe : AddNode(node)
    \/ \E node \in Universe :
           RemoveNode(node) /\ (gen.pc = "none" \/ DOMAIN ring' # {})
    \/ \E string_key \in LookupKeys :
           DOMAIN ring # {} /\ GetNodes(string_key)
    \/ PullNext

SpecInterleaved == InitIter /\ [][NextInterleaved]_vars

\* ring.add_node(node) is called: the loop is entered
CallAddNode(node) ==
    /\ call.at = "idle"
    /\ Len(sorted_keys) + replicas <= MaxKeys
    /\ call' = [op |-> "add_node", node |-> node, i |-> 0,
                at |-> add_node_at(0), from |-> Self]
    /\ UNCHANGED <<replicas, ring, sorted_keys, md5, last, gen>>

\* line 64 of the call in progress
StepSet ==
    /\ call.at = "set"
    /\ ring' = add_node_set(Self, call.node, call.i).ring
    /\ sorted_keys' = add_node_set(Self, call.node, call.i).sorted_keys
    /\ call' = [call EXCEPT !.at = "append"]
    /\ UNCHANGED <<replicas, md5, last, gen>>

\* line 65 of the call in progress, and the step of the loop
StepAppend ==
    /\ call.at = "append"
    /\ ring' = add_node_append(Self, call.node, call.i).ring
    /\ sorted_keys' = add_node_append(Self, call.node, call.i).sorted_keys
    /\ call' = [call EXCEPT !.i = call.i + 1,
                            !.at = add_node_at(call.i + 1)]
    /\ UNCHANGED <<replicas, md5, last, gen>>

\* line 66 of the call in progress, and its return
StepSort ==
    /\ call.at = "sort"
    /\ sorted_keys' = ListSort(sorted_keys)
    /\ last' = [op |-> "add_node", node |-> call.node, status |-> "ok"]
    /\ call' = NoCall
    /\ UNCHANGED <<replicas, ring, md5, gen>>

\* ring.remove_node(node) is called: the loop is entered, or the call
\* returns at once when replicas is 0
CallRemoveNode(node) ==
    /\ call.at = "idle"
    /\ IF replicas > 0
       THEN /\ call' = [op |-> "remove_node", node |-> node, i |-> 0,
                        at |-> "del", from |-> Self]
            /\ UNCHANGED last
       ELSE /\ call' = NoCall
            /\ last' = [op |-> "remove_node", node |-> node,
                        status |-> "ok"]
    /\ UNCHANGED <<replicas, ring, sorted_keys, md5, gen>>

\* line 72 of the call in progress: the deletion, or KeyError out of the
\* call
StepDel ==
    /\ call.at = "del"
    /\ LET r == remove_node_del(Self, call.node, call.i)
       IN  /\ ring' = r.self.ring
           /\ sorted_keys' = r.self.sorted_keys
           /\ IF r.status = "ok"
              THEN /\ call' = [call EXCEPT !.at = "remove"]
                   /\ UNCHANGED last
              ELSE /\ call' = NoCall
                   /\ last' = [op |-> "remove_node", node |-> call.node,
                               status |-> r.status]
    /\ UNCHANGED <<replicas, md5, gen>>

\* line 73 of the call in progress: the removal, or ValueError out of the
\* call; after the last index the call returns
StepRemove ==
    /\ call.at = "remove"
    /\ LET r == remove_node_remove(Self, call.node, call.i)
       IN  /\ ring' = r.self.ring
           /\ sorted_keys' = r.self.sorted_keys
           /\ IF r.status = "ok" /\ call.i + 1 < replicas
              THEN /\ call' = [call EXCEPT !.i = call.i + 1, !.at = "del"]
                   /\ UNCHANGED last
              ELSE /\ call' = NoCall
                   /\ last' = [op |-> "remove_node", node |-> call.node,
                               status |-> r.status]
    /\ UNCHANGED <<replicas, md5, gen>>

\* the ring with its add_node and remove_node calls taken statement by
\* statement
NextSteps ==
    \/ \E node \in Universe : CallAddNode(node)
    \/ StepSet
    \/ StepAppend
    \/ StepSort
    \/ \E node \in Universe : CallRemoveNode(node)
    \/ StepDel
    \/ StepRemove

SpecSteps == Init /\ [][NextSteps]_vars

\* ------------------------------------------------------------- claims
\* the values of a dict
Range(d) == {d[k] : k \in DOMAIN d}

\* the elements of a list
Elements(s) == {s[i] : i \in 1..Len(s)}

\* the number of occurrences of x in a list
Count(s, x) == Cardinality({i \in 1..Len(s) : s[i] = x})

IsAscending(s) == \A i \in 1..(Len(s) - 1) : s[i] <= s[i + 1]

\* the object after the step
NextSelf == [ring |-> ring', sorted_keys |-> sorted_keys']

\* the digests of the composite strings of a node
PointsOf(node) == {gen_key(Composite(node, i)) : i \in 0..(replicas - 1)}

\* the digests of the composite strings of a node are pairwise distinct and
\* differ from the digest of every other composite string
NoCollision(node) ==
    \A i \in 0..(replicas - 1) :
        \A c \in (DOMAIN md5) \ LookupKeys :
            c # Composite(node, i)
                => gen_key(c) # gen_key(Composite(node, i))

\* C1: after any sequence of construction, add_node and remove_node calls
\* _sorted_keys is exactly the sorted set of keys of ring: ascending, every
\* key of ring exactly once, and no element that is not a key of ring.
C1_SortedKeysAreRingKeys ==
    /\ IsAscending(sorted_keys)
    /\ \A k \in DOMAIN ring : Count(sorted_keys, k) = 1
    /\ \A k \in Elements(sorted_keys) : k \in DOMAIN ring

\* C2: on every reachable ring with a non-empty ring dict, get_node_pos and
\* get_node return, for every string key, a node stored in ring; they do
\* not raise and do not return None.
C2_LookupTotal ==
    DOMAIN ring # {} =>
        \A k \in DOMAIN md5 :
            /\ get_node_pos(Self, k).status = "ok"
            /\ get_node_pos(Self, k).node \in Range(ring)
            /\ get_node(Self, k).status = "ok"
            /\ get_node(Self, k).node \in Range(ring)

\* C3: on a non-empty ring get_node_pos(key) returns (ring[p], i) with p
\* the smallest element of _sorted_keys that is >= gen_key(key) and i an
\* index of p; when gen_key(key) exceeds every element it returns
\* (ring[_sorted_keys[0]], 0).
C3_LookupClockwise ==
    DOMAIN ring # {} =>
        \A k \in DOMAIN md5 :
            LET r == get_node_pos(Self, k)
                after == {p \in Elements(sorted_keys) : gen_key(k) <= p}
                p == IF after = {} THEN sorted_keys[1]
                     ELSE CHOOSE m \in after : \A q \in after : m <= q
            IN  /\ r.status = "ok"
                /\ p \in DOMAIN ring
                /\ r.node = ring[p]
                /\ sorted_keys[r.pos + 1] = p
                /\ after = {} => r.pos = 0

\* the element of _sorted_keys that get_node_pos settles on for a key: the
\* point that owns the key
OwningPoint(self, string_key) ==
    LET found == scan(self.sorted_keys, gen_key(string_key))
    IN  self.sorted_keys[IF found = 0 THEN 1 ELSE found]

\* C4: when remove_node(B) returns on a ring that holds B and another node,
\* get_node returns B for no key afterwards, and for every key for which
\* get_node returned a node before the call and whose owning point was not
\* a point of B, get_node returns that same node after the call.
C4_RemoveKeepsOtherOwners ==
    [][\A B \in Universe :
           (/\ last'.op = "remove_node" /\ last'.node = B
            /\ last'.status = "ok"
            /\ B \in Range(ring)
            /\ Range(ring) \ {B} # {})
           => \A k \in DOMAIN md5 :
                  /\ get_node(NextSelf, k).node # B
                  /\ (/\ get_node(Self, k).status = "ok"
                      /\ OwningPoint(Self, k) \notin PointsOf(B))
                         => get_node(NextSelf, k) = get_node(Self, k)]_vars

\* C4 happens: remove_node returned, two other nodes are still on the ring
\* and own keys
C4_Witness ==
    /\ last.op = "remove_node" /\ last.status = "ok"
    /\ replicas >= 1
    /\ NoCollision(last.node)
    /\ Cardinality(Range(ring)) = 2
    /\ Cardinality({get_node(Self, k).node : k \in LookupKeys}) = 2

\* C5: when add_node(X) runs on a non-empty ring that does not hold X and
\* none of whose keys is a digest of a composite string of X, get_node
\* returns for every key what it returned before or X.
C5_AddRemapsOnlyToNew ==
    [][\A X \in Universe :
           (/\ last'.op = "add_node" /\ last'.node = X
            /\ DOMAIN ring # {}
            /\ X \notin Range(ring)
            /\ PointsOf(X) \cap DOMAIN ring = {})
           => \A k \in DOMAIN md5 :
                  get_node(NextSelf, k) \in
                      {get_node(Self, k), [status |-> "ok", node |-> X]}]_vars

\* C5 happens: a node was added next to two others, it took over some keys
\* and left some to each of the others
C5_Witness ==
    /\ last.op = "add_node"
    /\ replicas >= 1
    /\ NoCollision(last.node)
    /\ Cardinality(DOMAIN ring) = 3 * replicas
    /\ Cardinality({get_node(Self, k).node : k \in LookupKeys}) = 3

\* C6 as stated: with replicas >= 1, remove_node(X) raises whenever no point
\* of ring maps to X.
C6_RemoveAbsentRaises ==
    [][\A X \in Universe :
           (/\ replicas >= 1
            /\ last'.op = "remove_node" /\ last'.node = X
            /\ X \notin Range(ring))
           => last'.status # "ok"]_vars

\* C6 amended: with replicas >= 1, remove_node(X) raises whenever no point
\* of ring maps to X and no key of ring is the digest of a composite string
\* of X.
C6_RemoveAbsentRaisesNoCollision ==
    [][\A X \in Universe :
           (/\ replicas >= 1
            /\ last'.op = "remove_node" /\ last'.node = X
            /\ X \notin Range(ring)
            /\ PointsOf(X) \cap DOMAIN ring = {})
           => last'.status # "ok"]_vars

\* C6 happens: remove_node raised for a node that is not on a non-empty ring
C6_Witness ==
    /\ replicas >= 1
    /\ last.op = "remove_node" /\ last.status = "KeyError"
    /\ last.node \notin Range(ring)
    /\ PointsOf(last.node) \cap DOMAIN ring = {}
    /\ DOMAIN ring # {}

\* C9: absent collisions, after add_node(X) exactly replicas keys of ring map
\* to X, the digests of "<X>:<i>" for i in 0..replicas-1; after
\* remove_node(X) has returned no key of ring maps to X.
C9_ReplicaCount ==
    LET X == last.node
        mine == {k \in DOMAIN ring : ring[k] = X}
    IN  /\ (last.op = "add_node" /\ NoCollision(X))
            => /\ Cardinality(mine) = replicas
               /\ mine = PointsOf(X)
        /\ (last.op = "remove_node" /\ last.status = "ok" /\ NoCollision(X))
            => mine = {}

\* C9 happens: with two replicas per node and no collision, a node was
\* added to a ring that holds another node
C9_Witness ==
    /\ last.op = "add_node" /\ NoCollision(last.node)
    /\ replicas = 2
    /\ Cardinality(Range(ring)) = 2

\* the fresh rings HashRing(nodes, replicas) for the orderings nodes of a
\* set of node identifiers
Orderings(ns) ==
    {o \in [1..Cardinality(ns) -> ns] :
        \A i, j \in 1..Cardinality(ns) : i # j => o[i] # o[j]}

\* C7: the result of get_node depends only on the set of nodes on the ring:
\* every reachable ring answers every key as the ring freshly constructed
\* from its present nodes, in whatever order, answers it.
C7_LookupDependsOnMembershipOnly ==
    \A nodes \in Orderings(Range(ring)) :
        \A k \in DOMAIN md5 :
            get_node(Self, k) = get_node(HashRing(nodes), k)

\* C8: after every add_node or remove_node call, returned or raised, every
\* node has all its points in both ring and _sorted_keys or none of them in
\* either.
C8_AllOrNothing ==
    last.op \in {"add_node", "remove_node"} =>
        \A n \in Universe :
            \/ \A p \in PointsOf(n) :
                   p \in DOMAIN ring /\ ListContains(sorted_keys, p)
            \/ \A p \in PointsOf(n) :
                   p \notin DOMAIN ring /\ ~ListContains(sorted_keys, p)

\* C10: on an empty ring the first next() of the generator of get_nodes
\* yields (None, None) and the next() after it raises StopIteration.
C10_EmptyIterationStops ==
    [][(DOMAIN ring = {} /\ last'.op = "next") =>
           /\ gen.pc = "start"
                  => (last'.status = "yield" /\ last'.node = Sentinel)
           /\ gen.pc = "sentinel"
                  => last'.status = "StopIteration"]_vars

\* the 1-based index of _sorted_keys whose owner the next next() of the
\* generator g is to yield when the list has not changed since the
\* generator started: the position of get_node_pos first, then each
\* following index up to the end, then index 0 to the end again and again
IterIndex(self, g) ==
    CASE g.pc = "start" -> get_node_pos(self, g.key).pos + 1
      [] g.pc = "slice" ->
             IF g.i < Len(g.slice)
             THEN Len(self.sorted_keys) - Len(g.slice) + g.i + 1
             ELSE 1
      [] OTHER -> IF g.i < Len(self.sorted_keys) THEN g.i + 1 ELSE 1

\* C11: on a non-empty ring that is not changed while a generator of
\* get_nodes exists, every next() yields a node: the first yields the node
\* of get_node_pos(key), the following ones the owners of the following
\* elements of _sorted_keys up to its end, then the owners of all elements
\* from index 0 to the end, again and again; no next() raises or ends the
\* sequence.
C11_IterationOrder ==
    [][(last'.op = "next" /\ DOMAIN ring # {}) =>
           /\ last'.status = "yield"
           /\ gen.pc \in {"start", "slice", "loop"}
           /\ gen.pc = "start" =>
                  /\ get_node_pos(Self, gen.key).status = "ok"
                  /\ last'.node = get_node_pos(Self, gen.key).node
           /\ sorted_keys[IterIndex(Self, gen)] \in DOMAIN ring
           /\ last'.node = ring[sorted_keys[IterIndex(Self, gen)]]]_vars

\* what get_node_pos and get_node return on an empty ring: (None, None) and
\* None
EmptyPos == [status |-> "ok", node |-> None, pos |-> NonePos]
EmptyNode == [status |-> "ok", node |-> None]

\* C12: whenever ring has no key (constructed without nodes, or every node
\* removed again), get_node returns None and get_node_pos returns
\* (None, None) for every key, without raising; after an add_node, with
\* replicas a positive integer, neither returns that sentinel.
C12_EmptySentinel ==
    /\ DOMAIN ring = {} =>
           \A k \in DOMAIN md5 :
               /\ get_node_pos(Self, k) = EmptyPos
               /\ get_node(Self, k) = EmptyNode
    /\ (last.op = "add_node" /\ replicas >= 1) =>
           \A k \in DOMAIN md5 :
               /\ get_node_pos(Self, k) # EmptyPos
               /\ get_node(Self, k) # EmptyNode

\* C12 happens: the last node of a ring has been removed and the ring is
\* empty again
C12_Witness ==
    /\ replicas >= 1
    /\ last.op = "remove_node" /\ last.status = "ok"
    /\ DOMAIN ring = {}

\* C13: _sorted_keys is in ascending order after construction, after every
\* add_node and after every remove_node, returned or raised, whatever the
\* calls before it (repeated add_node of a node and colliding digests
\* included).
C13_SortedAscending ==
    last.op \in {"__init__", "add_node", "remove_node"}
        => IsAscending(sorted_keys)

\* C13 happens: a remove_node has raised on a ring whose _sorted_keys holds
\* a digest twice, next to other digests
C13_Witness ==
    /\ last.op = "remove_node" /\ last.status # "ok"
    /\ Len(sorted_keys) > Cardinality(Elements(sorted_keys))
    /\ Cardinality(Elements(sorted_keys)) >= 2

\* C15: add_node(X) never raises; afterwards ring maps every digest of a
\* composite string of X to X, also a digest that was a key of ring before
\* and mapped to another node, and every other key of ring is mapped as
\* before.
C15_AddOverwrites ==
    [][\A X \in Universe :
           (last'.op = "add_node" /\ last'.node = X)
           => /\ last'.status = "ok"
              /\ DOMAIN ring' = (DOMAIN ring) \cup PointsOf(X)
              /\ \A p \in PointsOf(X) : ring'[p] = X
              /\ \A k \in (DOMAIN ring) \ PointsOf(X) :
                     ring'[k] = ring[k]]_vars

\* C15 happens: the node added last shares a digest with another node that
\* is still on the ring, and owns it
C15_Witness ==
    /\ last.op = "add_node"
    /\ \E Y \in Range(ring) \ {last.node} :
           \E p \in PointsOf(Y) \cap PointsOf(last.node) :
               ring[p] = last.node

\* _sorted_keys of the object self is the sorted key set of its ring
Consistent(self) ==
    /\ IsAscending(self.sorted_keys)
    /\ \A k \in DOMAIN self.ring : Count(self.sorted_keys, k) = 1
    /\ \A k \in Elements(self.sorted_keys) : k \in DOMAIN self.ring

\* some but not all points of node are keys of the ring of self
Partial(self, node) ==
    /\ PointsOf(node) \cap DOMAIN self.ring # {}
    /\ ~(PointsOf(node) \subseteq DOMAIN self.ring)

\* the call in progress began on a consistent object and is an add_node of
\* a node that was not on the ring, or a remove_node of a node that was,
\* whose composite strings collide with nothing
CleanCall ==
    /\ call.at # "idle"
    /\ Consistent(call.from)
    /\ NoCollision(call.node)
    /\ call.op = "add_node" => call.node \notin Range(call.from.ring)
    /\ call.op = "remove_node" =>
           \A p \in PointsOf(call.node) :
               p \in DOMAIN call.from.ring /\ call.from.ring[p] = call.node

\* the call in progress has executed a statement and has a statement of
\* its loop left
InsideLoop ==
    \/ call.at \in {"append", "remove"}
    \/ call.at \in {"set", "del"} /\ call.i > 0

\* C16: add_node and remove_node take several steps, and between them
\* another thread sees an inconsistent object.  For a call that began on a
\* consistent ring (add_node of an absent node, remove_node of a present
\* one, no collision): at every point inside the loop only some of the
\* points of the node are keys of ring, or _sorted_keys is not the sorted
\* key set of ring; before the final sort of add_node the only possible
\* inconsistency is that _sorted_keys is unsorted.
C16_IntermediateInconsistent ==
    CleanCall =>
        /\ InsideLoop => (Partial(Self, call.node) \/ ~Consistent(Self))
        /\ call.at = "sort" =>
               /\ ~Partial(Self, call.node)
               /\ Consistent(Self) <=> IsAscending(sorted_keys)

\* C16 happens: a remove_node is between del self.ring[key] and
\* self._sorted_keys.remove(key), _sorted_keys holds a position that has no
\* entry in ring, and a get_node_pos at this moment raises KeyError though
\* every get_node_pos returned a node when the call began
C16_Witness ==
    /\ CleanCall
    /\ call.op = "remove_node" /\ call.at = "remove"
    /\ DOMAIN ring # {}
    /\ \E k \in Elements(sorted_keys) : k \notin DOMAIN ring
    /\ \A k \in LookupKeys : get_node_pos(call.from, k).status = "ok"
    /\ \E k \in LookupKeys : get_node_pos(Self, k).status = "KeyError"

\* C17: when remove_node(X) raises for a node X that is not on the ring
\* and none of whose composite strings has a digest that is a key of ring,
\* ring and _sorted_keys are after the call exactly what they were before.
C17_FailedRemoveKeepsState ==
    [][\A X \in Universe :
           (/\ last'.op = "remove_node" /\ last'.node = X
            /\ last'.status # "ok"
            /\ X \notin Range(ring)
            /\ PointsOf(X) \cap DOMAIN ring = {})
           => /\ ring' = ring
              /\ sorted_keys' = sorted_keys]_vars

\* C17 happens: remove_node raised for a node that is not on the ring, on
\* a ring that holds two other nodes
C17_Witness ==
    /\ last.op = "remove_node" /\ last.status # "ok"
    /\ last.node \notin Range(ring)
    /\ PointsOf(last.node) \cap DOMAIN ring = {}
    /\ Cardinality(Range(ring)) = 2

\* remove_node(X) right after the add_node(X) of the step undoes it: it
\* returns, ring and _sorted_keys are what they were before the add_node,
\* and get_node_pos returns for every key what it returned before
RoundTrip(X) ==
    /\ remove_node(NextSelf, X) = [self |-> Self, status |-> "ok"]
    /\ \A k \in DOMAIN md5 :
           get_node_pos(remove_node(NextSelf, X).self, k)
               = get_node_pos(Self, k)

\* C18 as stated: on a ring that does not hold X and none of whose keys is
\* the digest of a composite string of X, add_node(X) followed by
\* remove_node(X) restores ring and _sorted_keys, and with them the result
\* of every get_node_pos.
C18_AddRemoveRoundTrip ==
    [][\A X \in Universe :
           (/\ last'.op = "add_node" /\ last'.node = X
            /\ X \notin Range(ring)
            /\ PointsOf(X) \cap DOMAIN ring = {})
           => RoundTrip(X)]_vars

\* C18 amended: the same, for a node X whose composite strings have
\* pairwise distinct digests.
C18_AddRemoveRoundTripDistinct ==
    [][\A X \in Universe :
           (/\ last'.op = "add_node" /\ last'.node = X
            /\ X \notin Range(ring)
            /\ PointsOf(X) \cap DOMAIN ring = {}
            /\ Cardinality(PointsOf(X)) = replicas)
           => RoundTrip(X)]_vars

\* C18 happens: a node with two distinct points of its own has been added
\* next to another node, each of its points once in _sorted_keys, and
\* remove_node of it returns and takes its points away again
C18_Witness ==
    /\ last.op = "add_node"
    /\ replicas = 2
    /\ NoCollision(last.node)
    /\ \A p \in PointsOf(last.node) : Count(sorted_keys, p) = 1
    /\ Range(ring) \ {last.node} # {}
    /\ remove_node(Self, last.node).status = "ok"
    /\ last.node \notin Range(remove_node(Self, last.node).self.ring)

\* C19: when a generator of get_nodes was created on a non-empty ring and
\* the add_node and remove_node calls made between its next() calls leave
\* the ring non-empty, every next() after the first yields a node, without
\* raising or hanging, and the node is on the ring at that moment.
C19_InterleavedIteration ==
    [][(last'.op = "next" /\ gen.pc \in {"slice", "loop"}) =>
           /\ last'.status = "yield"
           /\ last'.node \in Range(ring)]_vars

====
